---- MODULE Spec2Model ----
(***************************************************************************)
(* A model of the "calc" expression compiler: Lexer -> Parser -> Sema ->   *)
(* CodeGen, driven by main, followed by a run of the generated program     *)
(* against the calc_read / calc_write runtime.                             *)
(*                                                                         *)
(* Source text is a sequence of one-character strings.  The parser is a    *)
(* step machine with an explicit call stack (one frame per active          *)
(* parseCalc / parseExpr / parseTerm / parseFactor call), so that every    *)
(* loop iteration and every recovery step of the code is a step here.      *)
(***************************************************************************)
EXTENDS Integers, Sequences, FiniteSets, TLC

VARIABLES
  src,        \* the input expression (main's Input), a sequence of characters
  BufferPtr,  \* Lexer::BufferPtr, as a 1-based index into src; Len(src)+1 is the NUL
  Tok,        \* Parser::Tok, the current token [Kind, Text]
  HasError,   \* Parser::HasError
  stack,      \* the parser's call stack, innermost call last
  ret,        \* the value returned by the call that returned last
  pc,         \* where main is
  Tree,       \* main's Tree
  diag,       \* what was written to llvm::errs(), in order
  sema,       \* the result of Sema::semantic: [ran, HasError, Scope]
  gen,        \* the result of CodeGen::compile: [ran, instrs, V, nameMap, miss, convFail]
  status,     \* main's exit status, -1 while it runs
  run         \* the run of the generated program: [ran, inputs, out]

vars == <<src, BufferPtr, Tok, HasError, stack, ret, pc, Tree, diag, sema, gen,
          status, run>>

----------------------------------------------------------------------------
(* Bounds of the model *)

\* longest sequence of lexemes enumerated exhaustively
MaxToks == 3
\* most operands of an enumerated operator chain
MaxOperands == 4
\* most names of an enumerated "with" declaration
MaxDecl == 3
\* longest digit string enumerated exhaustively
MaxDigits == 2

----------------------------------------------------------------------------
(* Characters: src/unnamed/part_004, namespace charinfo *)

\* (the vertical tab of isWhitespace has no spelling in a TLA+ string)
Whitespace == {" ", "\t", "\f", "\r", "\n"}

Digits == {"0", "1", "2", "3", "4", "5", "6", "7", "8", "9"}

Letters ==
  {"a", "b", "c", "d", "e", "f", "g", "h", "i", "j", "k", "l", "m", "n", "o",
   "p", "q", "r", "s", "t", "u", "v", "w", "x", "y", "z",
   "A", "B", "C", "D", "E", "F", "G", "H", "I", "J", "K", "L", "M", "N", "O",
   "P", "Q", "R", "S", "T", "U", "V", "W", "X", "Y", "Z"}

isWhitespace(c) == c \in Whitespace
isDigit(c) == c \in Digits
isLetter(c) == c \in Letters

\* the character at index p of s; the terminating NUL past the end
NUL == "NUL"
CharAt(s, p) == IF p <= Len(s) THEN s[p] ELSE NUL

----------------------------------------------------------------------------
(* Lexer: src/unnamed/part_004 *)

WithText == <<"w", "i", "t", "h">>

\* Lexer::formToken with the mutation "BufferPtr is not advanced"
FormTokenNoAdvance(s, p, TokEnd, Kind) ==
  [ptr |-> p, tok |-> [Kind |-> Kind, Text |-> SubSeq(s, p, TokEnd - 1)]]

\* Lexer::formToken: the token's kind and text, BufferPtr moved to TokEnd
formToken(s, p, TokEnd, Kind) ==
  [ptr |-> TokEnd, tok |-> [Kind |-> Kind, Text |-> SubSeq(s, p, TokEnd - 1)]]

\* the first index >= p whose character is not whitespace (or is the NUL)
RECURSIVE SkipWhitespace(_, _)
SkipWhitespace(s, p) ==
  IF p <= Len(s) /\ isWhitespace(s[p]) THEN SkipWhitespace(s, p + 1) ELSE p

\* lines 41-42 and 58-59 mutated: the run is cut after its first character
RunEndAtOnce(s, e, class) == e
\* the first index >= e whose character is not in class
RECURSIVE RunEnd(_, _, _)
RunEnd(s, e, class) ==
  IF CharAt(s, e) \in class THEN RunEnd(s, e + 1, class) ELSE e

PunctKind(c) ==
  CASE c = "+" -> "plus"
    [] c = "-" -> "minus"
    [] c = "*" -> "star"
    [] c = "/" -> "slash"
    [] c = "(" -> "l_paren"
    [] c = ")" -> "r_paren"
    [] c = ":" -> "colon"
    [] c = "," -> "comma"
    [] OTHER -> "unknown"

\* Lexer::next(token): the new BufferPtr and the new value of token.  At the
\* end of the buffer only the kind is assigned; the text keeps its old value.
next(s, p, token) ==
  LET q == SkipWhitespace(s, p) IN
  IF q > Len(s) THEN [ptr |-> q, tok |-> [Kind |-> "eoi", Text |-> token.Text]]
  ELSE IF isLetter(s[q]) THEN
    LET end == RunEnd(s, q + 1, Letters)
        Name == SubSeq(s, q, end - 1)
    IN formToken(s, q, end, IF Name = WithText THEN "KW_with" ELSE "ident")
  ELSE IF isDigit(s[q]) THEN
    formToken(s, q, RunEnd(s, q + 1, Digits), "number")
  ELSE formToken(s, q, q + 1, PunctKind(s[q]))

\* the kinds and texts of all tokens of s up to end-of-input, by repeated next
RECURSIVE TokensFrom(_, _, _)
TokensFrom(s, p, token) ==
  LET n == next(s, p, token) IN
  IF n.tok.Kind = "eoi" THEN <<>> ELSE <<n.tok>> \o TokensFrom(s, n.ptr, n.tok)

----------------------------------------------------------------------------
(* The source texts the model compiles.  Each is a command-line argument   *)
(* main can be given.                                                      *)

\* lexemes, as character sequences
LxWith == WithText
LxA == <<"a">>
LxB == <<"b">>
LxC == <<"c">>
LxX == <<"x">>
LxY == <<"y">>
LxComma == <<",">>
LxColon == <<":">>
LxPlus == <<"+">>
LxMinus == <<"-">>
LxStar == <<"*">>
LxSlash == <<"/">>
LxLParen == <<"(">>
LxRParen == <<")">>
LxAt == <<"@">>
LxSp == <<" ">>
Lx(d) == <<d>>

\* the lexemes concatenated, nothing between them
RECURSIVE Concat(_)
Concat(ls) == IF ls = <<>> THEN <<>> ELSE Head(ls) \o Concat(Tail(ls))

\* the lexemes with one space between neighbours
RECURSIVE Join(_)
Join(ls) ==
  IF ls = <<>> THEN <<>>
  ELSE IF Len(ls) = 1 THEN Head(ls)
  ELSE Head(ls) \o LxSp \o Join(Tail(ls))

\* all sequences over S of length lo..hi
SeqsOf(S, lo, hi) == UNION {[1..n -> S] : n \in lo..hi}

\* Family 1: every sequence of at most MaxToks lexemes
Lexemes1 ==
  {LxWith, LxA, Lx("7"), LxComma, LxColon, LxMinus, LxStar, LxLParen, LxRParen, LxAt}
Sources1 == {Join(ls) : ls \in SeqsOf(Lexemes1, 0, MaxToks)}

\* Family 2: operator chains x1 op x2 op ... xn over the four operators, with
\* at most one parenthesised group xi .. xj
OperandTexts == <<Lx("8"), Lx("3"), Lx("2"), Lx("5"), Lx("7"), Lx("4")>>
Operand(i) == OperandTexts[((i - 1) % Len(OperandTexts)) + 1]
OpLexemes == {LxPlus, LxMinus, LxStar, LxSlash}
\* the chain of n operands with operators ops and a group from i to j (none if i = 0)
Chain(n, ops, i, j) ==
  Concat([k \in 1..n |->
    (IF k > 1 THEN ops[k - 1] ELSE <<>>)
      \o (IF k = i THEN LxLParen ELSE <<>>)
      \o Operand(k)
      \o (IF k = j /\ i > 0 THEN LxRParen ELSE <<>>)])
Groups(n) == {<<0, 0>>} \cup {g \in (1..n) \X (1..n) : g[1] < g[2]}
Sources2 ==
  UNION {{Chain(n, ops, g[1], g[2]) : ops \in [1..(n - 1) -> OpLexemes], g \in Groups(n)}
         : n \in 1..MaxOperands}

\* Family 3: "with" declarations of at most MaxDecl names over a body, and the
\* bare bodies
Names == {LxA, LxB, LxC}
Bodies ==
  {LxA,
   Lx("1"),
   Concat(<<LxA, LxStar, LxB, LxSp, LxMinus, LxSp, LxA, LxSlash, LxB>>),
   Concat(<<LxC, LxPlus, LxA, LxPlus, LxC>>),
   Concat(<<LxLParen, LxB, LxMinus, Lx("2"), LxRParen, LxStar, LxB>>)}
\* names separated by ", "
RECURSIVE CommaList(_)
CommaList(ns) ==
  IF Len(ns) = 1 THEN Head(ns)
  ELSE Head(ns) \o LxComma \o LxSp \o CommaList(Tail(ns))
WithSource(ns, body) == LxWith \o LxSp \o CommaList(ns) \o LxColon \o LxSp \o body
Sources3 ==
  Bodies \cup {WithSource(ns, b) : ns \in SeqsOf(Names, 1, MaxDecl), b \in Bodies}

\* Family 4: number literals: every digit string of at most MaxDigits digits,
\* and strings around the largest 32-bit signed value
IntMax == 2147483647
IntMaxText == <<"2", "1", "4", "7", "4", "8", "3", "6", "4", "7">>
Sources4 ==
  SeqsOf(Digits, 1, MaxDigits)
  \cup {SubSeq(IntMaxText, 1, 9) \o Lx(d) : d \in Digits}
  \cup {<<"0", "0">> \o IntMaxText,
        IntMaxText \o <<"0">>,
        <<"4", "2", "9", "4", "9", "6", "7", "2", "9", "6">>,
        <<"9", "9", "9", "9", "9", "9", "9", "9", "9", "9",
          "9", "9", "9", "9", "9", "9", "9", "9", "9", "9">>}

\* Family 5: the examples of the documentation, character for character
Ex_1p2m3 == Concat(<<Lx("1"), LxPlus, Lx("2"), LxStar, Lx("3")>>)
Ex_p1p2pm3 ==
  Concat(<<LxLParen, Lx("1"), LxPlus, Lx("2"), LxRParen, LxStar, Lx("3")>>)
Ex_withColon1 == Concat(<<LxWith, LxSp, LxColon, LxSp, Lx("1")>>)
Ex_withXX == Concat(<<LxWith, LxSp, LxX, LxComma, LxSp, LxX, LxColon, LxSp, LxX>>)
Ex_withXY == Concat(<<LxWith, LxSp, LxX, LxColon, LxSp, LxY>>)
Ex_withAB ==
  Concat(<<LxWith, LxSp, LxA, LxComma, LxSp, LxB, LxColon, LxSp,
           LxA, LxStar, LxB, LxSp, LxMinus, LxSp, LxA, LxSlash, LxB>>)
Examples == {Ex_1p2m3, Ex_p1p2pm3, Ex_withColon1, Ex_withXX, Ex_withXY, Ex_withAB}

\* Family 6: a well-formed text with one lexeme left out or one lexeme put in
Seeds ==
  {<<LxWith, LxA, LxComma, LxB, LxColon, LxLParen, LxA, LxMinus, LxB, LxRParen, LxSlash, Lx("2")>>,
   <<LxLParen, LxLParen, Lx("1"), LxRParen, LxStar, LxA, LxRParen>>}
Without(ls, i) == SubSeq(ls, 1, i - 1) \o SubSeq(ls, i + 1, Len(ls))
Inserted(ls, i, l) == SubSeq(ls, 1, i - 1) \o <<l>> \o SubSeq(ls, i, Len(ls))
Sources6 ==
  {Join(ls) : ls \in Seeds}
  \cup UNION {{Join(Without(ls, i)) : i \in 1..Len(ls)} : ls \in Seeds}
  \cup UNION {{Join(Inserted(ls, i, l)) : i \in 1..(Len(ls) + 1), l \in {LxA, LxRParen, LxColon}}
              : ls \in Seeds}

\* Family 7: at most MaxToks pieces written with nothing between them, so
\* that letters meet letters and digits, and blanks and unknown characters
\* fall anywhere
Pieces7 ==
  {LxWith, LxX, <<"W">>, Lx("1"), Lx("0"), LxSp, <<"\t">>, LxPlus, LxRParen, LxAt, <<"_">>}
Sources7 == {Concat(ls) : ls \in SeqsOf(Pieces7, 0, MaxToks)}

\* Family 8: expressions with an operand or a body missing, alone and after
\* a declaration
BrokenBodies ==
  {<<>>,
   LxAt,
   Concat(<<LxPlus, LxSp, LxC>>),
   Concat(<<LxA, LxSp, LxMinus>>),
   Concat(<<LxC, LxStar, LxSp, LxPlus, LxB>>),
   Concat(<<LxLParen, LxA, LxPlus, LxRParen, LxSlash, LxC>>),
   Concat(<<LxC, LxSlash, LxAt, LxX>>)}
Sources8 ==
  BrokenBodies \cup {WithSource(ns, b) : ns \in SeqsOf(Names, 1, MaxDecl), b \in BrokenBodies}

\* Family 9: one operation on literals at the ends of the 32-bit range
EdgeLiterals == {Lx("0"), Lx("1"), Lx("2"), IntMaxText, SubSeq(IntMaxText, 1, 9) \o Lx("8")}
Sources9 ==
  {l \o op \o r : l \in EdgeLiterals, r \in EdgeLiterals,
                  op \in {LxPlus, LxMinus, LxStar, LxSlash}}

Sources ==
  Sources1 \cup Sources2 \cup Sources3 \cup Sources4 \cup Examples \cup Sources6 \cup Sources7
  \cup Sources8 \cup Sources9

----------------------------------------------------------------------------
(* AST: the nodes built by the parser *)

NULL == [kind |-> "null"]
Factor(kind, val) == [kind |-> kind, val |-> val]
BinaryOp(op, left, right) == [kind |-> "BinaryOp", op |-> op, left |-> left, right |-> right]
WithDecl(Vars, E) == [kind |-> "WithDecl", vars |-> Vars, expr |-> E]

----------------------------------------------------------------------------
(* Parser: src/simplecalc/src/Parser.cpp and the class in Sema.cpp:103-161 *)

\* a call frame: the function, where it is, and its locals
Frame(fn) ==
  [fn |-> fn, pc |-> "start", Left |-> NULL, Op |-> "none", Vars |-> <<>>, Res |-> NULL]

Top == stack[Len(stack)]
\* the stack with the running frame replaced by f
SetTop(f) == [stack EXCEPT ![Len(stack)] = f]
\* the running frame becomes f and calls fn
Call(f, fn) == Append(SetTop(f), Frame(fn))
Running(fn, at) == pc = "parse" /\ stack # <<>> /\ Top.fn = fn /\ Top.pc = at

\* Parser::error(): what it writes
Unexpected(tok) == [msg |-> "Unexpected", text |-> tok.Text]

\* Parser::expect(Kind), Sema.cpp:120-126, mutated: a missing ")" is let through
expectButParen(t, Kind) == Kind # "r_paren" /\ t.Kind # Kind
\* Parser::expect(Kind), Sema.cpp:120-126: TRUE when the current token t is not
\* of that kind (the caller then records the error)
expect(t, Kind) == t.Kind # Kind

\* Parser::advance() from lexer position p with current token t
advance(p, t) == next(src, p, t)

\* parseExpr, line 71
ExprOperator(kind) == IF kind = "plus" THEN "Plus" ELSE "Minus"
\* parseTerm, line 91
TermOperator(kind) == IF kind = "star" THEN "Mul" ELSE "Div"

\* parseExpr line 78 mutated to fold to the right
NewExprNodeRight(Op, Left, Right) ==
  IF Left.kind = "BinaryOp" /\ Left.op \in {"Plus", "Minus"}
  THEN BinaryOp(Left.op, Left.left, BinaryOp(Op, Left.right, Right))
  ELSE BinaryOp(Op, Left, Right)
\* parseExpr line 78: Left = new BinaryOp(Op, Left, Right)
NewExprNode(Op, Left, Right) == BinaryOp(Op, Left, Right)
\* parseTerm line 98: Left = new BinaryOp(Op, Left, Right)
NewTermNode(Op, Left, Right) == BinaryOp(Op, Left, Right)

\* line 133 mutated: the missing factor is never reported
NoFactorNever(Res) == FALSE
\* line 133: if (!Res)
NoFactor(Res) == Res = NULL

\* line 137 mutated: the recovery loop stops at once, at any token
IsSyncTokenAny(kind) == TRUE
\* the tokens parseFactor's recovery loop stops at, line 137
IsSyncToken(kind) == kind \in {"r_paren", "star", "plus", "minus", "slash", "eoi"}

\* Parser::Parser: the first token is read
ParserCtor ==
  /\ pc = "ctor"
  /\ LET a == advance(BufferPtr, Tok) IN
       /\ BufferPtr' = a.ptr
       /\ Tok' = a.tok
  /\ pc' = "parse"
  /\ stack' = <<Frame("parse")>>
  /\ UNCHANGED <<src, HasError, ret, Tree, diag, sema, gen, status, run>>

\* Parser::parse, line 7: the call of parseCalc
parse_call ==
  /\ Running("parse", "start")
  /\ stack' = Call([Top EXCEPT !.pc = "afterCalc"], "parseCalc")
  /\ UNCHANGED <<src, BufferPtr, Tok, HasError, ret, pc, Tree, diag, sema, gen, status, run>>

\* Parser::parse, lines 7-9: Res = the result; expect(eoi); return Res to main
parse_return ==
  /\ Running("parse", "afterCalc")
  /\ IF expect(Tok, "eoi")
     THEN /\ HasError' = TRUE
          /\ diag' = Append(diag, Unexpected(Tok))
     ELSE UNCHANGED <<HasError, diag>>
  /\ Tree' = ret
  /\ stack' = <<>>
  /\ pc' = "parsed"
  /\ UNCHANGED <<src, BufferPtr, Tok, ret, sema, gen, status, run>>

\* parseCalc, lines 18-26 and 43: the "with" keyword and the first name, or
\* straight to the expression
parseCalc_start ==
  /\ Running("parseCalc", "start")
  /\ IF Tok.Kind = "KW_with"
     THEN LET a1 == advance(BufferPtr, Tok) IN
          IF expect(a1.tok, "ident")
          THEN /\ BufferPtr' = a1.ptr
               /\ Tok' = a1.tok
               /\ HasError' = TRUE
               /\ diag' = Append(diag, Unexpected(a1.tok))
               /\ stack' = SetTop([Top EXCEPT !.pc = "error"])
          ELSE LET a2 == advance(a1.ptr, a1.tok) IN
               /\ BufferPtr' = a2.ptr
               /\ Tok' = a2.tok
               /\ stack' = SetTop([Top EXCEPT !.pc = "vars", !.Vars = <<a1.tok.Text>>])
               /\ UNCHANGED <<HasError, diag>>
     ELSE /\ stack' = Call([Top EXCEPT !.pc = "afterExpr"], "parseExpr")
          /\ UNCHANGED <<BufferPtr, Tok, HasError, diag>>
  /\ UNCHANGED <<src, ret, pc, Tree, sema, gen, status, run>>

\* parseCalc, lines 29-43: one more ", name", or the ":" and on to the expression
parseCalc_vars ==
  /\ Running("parseCalc", "vars")
  /\ IF Tok.Kind = "comma"
     THEN LET a1 == advance(BufferPtr, Tok) IN
          IF expect(a1.tok, "ident")
          THEN /\ BufferPtr' = a1.ptr
               /\ Tok' = a1.tok
               /\ HasError' = TRUE
               /\ diag' = Append(diag, Unexpected(a1.tok))
               /\ stack' = SetTop([Top EXCEPT !.pc = "error"])
          ELSE LET a2 == advance(a1.ptr, a1.tok) IN
               /\ BufferPtr' = a2.ptr
               /\ Tok' = a2.tok
               /\ stack' = SetTop([Top EXCEPT !.Vars = Append(@, a1.tok.Text)])
               /\ UNCHANGED <<HasError, diag>>
     ELSE IF expect(Tok, "colon")
          THEN /\ HasError' = TRUE
               /\ diag' = Append(diag, Unexpected(Tok))
               /\ stack' = SetTop([Top EXCEPT !.pc = "error"])
               /\ UNCHANGED <<BufferPtr, Tok>>
          ELSE LET a == advance(BufferPtr, Tok) IN
               /\ BufferPtr' = a.ptr
               /\ Tok' = a.tok
               /\ stack' = Call([Top EXCEPT !.pc = "afterExpr"], "parseExpr")
               /\ UNCHANGED <<HasError, diag>>
  /\ UNCHANGED <<src, ret, pc, Tree, sema, gen, status, run>>

\* parseCalc, lines 43-54: E = the expression; expect(eoi); return E or a WithDecl
parseCalc_afterExpr ==
  /\ Running("parseCalc", "afterExpr")
  /\ IF expect(Tok, "eoi")
     THEN /\ HasError' = TRUE
          /\ diag' = Append(diag, Unexpected(Tok))
          /\ stack' = SetTop([Top EXCEPT !.pc = "error"])
          /\ UNCHANGED ret
     ELSE /\ ret' = IF Top.Vars = <<>> THEN ret ELSE WithDecl(Top.Vars, ret)
          /\ stack' = SubSeq(stack, 1, Len(stack) - 1)
          /\ UNCHANGED <<HasError, diag>>
  /\ UNCHANGED <<src, BufferPtr, Tok, pc, Tree, sema, gen, status, run>>

\* parseCalc, lines 57-61: one turn of the loop that skips to end-of-input, or
\* the return of nullptr
parseCalc_error ==
  /\ Running("parseCalc", "error")
  /\ IF Tok.Kind # "eoi"
     THEN LET a == advance(BufferPtr, Tok) IN
          /\ BufferPtr' = a.ptr
          /\ Tok' = a.tok
          /\ UNCHANGED <<stack, ret>>
     ELSE /\ ret' = NULL
          /\ stack' = SubSeq(stack, 1, Len(stack) - 1)
          /\ UNCHANGED <<BufferPtr, Tok>>
  /\ UNCHANGED <<src, HasError, pc, Tree, diag, sema, gen, status, run>>

\* parseExpr, line 66: the call of parseTerm for the first term
parseExpr_start ==
  /\ Running("parseExpr", "start")
  /\ stack' = Call([Top EXCEPT !.pc = "gotTerm"], "parseTerm")
  /\ UNCHANGED <<src, BufferPtr, Tok, HasError, ret, pc, Tree, diag, sema, gen, status, run>>

\* parseExpr, lines 66-81: a term has been parsed: it is Left, or the Right
\* that is folded into Left; then the loop test, and the next call or the return
parseExpr_gotTerm ==
  /\ Running("parseExpr", "gotTerm")
  /\ LET Left == IF Top.Op = "none" THEN ret ELSE NewExprNode(Top.Op, Top.Left, ret) IN
     IF Tok.Kind \in {"plus", "minus"}
     THEN LET a == advance(BufferPtr, Tok) IN
          /\ BufferPtr' = a.ptr
          /\ Tok' = a.tok
          /\ stack' = Call([Top EXCEPT !.Left = Left, !.Op = ExprOperator(Tok.Kind)],
                           "parseTerm")
          /\ UNCHANGED ret
     ELSE /\ ret' = Left
          /\ stack' = SubSeq(stack, 1, Len(stack) - 1)
          /\ UNCHANGED <<BufferPtr, Tok>>
  /\ UNCHANGED <<src, HasError, pc, Tree, diag, sema, gen, status, run>>

\* parseTerm, line 86: the call of parseFactor for the first factor
parseTerm_start ==
  /\ Running("parseTerm", "start")
  /\ stack' = Call([Top EXCEPT !.pc = "gotFactor"], "parseFactor")
  /\ UNCHANGED <<src, BufferPtr, Tok, HasError, ret, pc, Tree, diag, sema, gen, status, run>>

\* parseTerm, lines 86-101: as parseExpr_gotTerm, one tier down
parseTerm_gotFactor ==
  /\ Running("parseTerm", "gotFactor")
  /\ LET Left == IF Top.Op = "none" THEN ret ELSE NewTermNode(Top.Op, Top.Left, ret) IN
     IF Tok.Kind \in {"star", "slash"}
     THEN LET a == advance(BufferPtr, Tok) IN
          /\ BufferPtr' = a.ptr
          /\ Tok' = a.tok
          /\ stack' = Call([Top EXCEPT !.Left = Left, !.Op = TermOperator(Tok.Kind)],
                           "parseFactor")
          /\ UNCHANGED ret
     ELSE /\ ret' = Left
          /\ stack' = SubSeq(stack, 1, Len(stack) - 1)
          /\ UNCHANGED <<BufferPtr, Tok>>
  /\ UNCHANGED <<src, HasError, pc, Tree, diag, sema, gen, status, run>>

\* parseFactor, lines 106-126 and 132-134: the switch on the current token
parseFactor_start ==
  /\ Running("parseFactor", "start")
  /\ LET a == advance(BufferPtr, Tok) IN
     CASE Tok.Kind \in {"number", "ident"} ->
            /\ ret' = Factor(IF Tok.Kind = "number" THEN "Number" ELSE "Ident", Tok.Text)
            /\ BufferPtr' = a.ptr
            /\ Tok' = a.tok
            /\ stack' = SubSeq(stack, 1, Len(stack) - 1)
            /\ UNCHANGED <<HasError, diag>>
       [] Tok.Kind = "l_paren" ->
            /\ BufferPtr' = a.ptr
            /\ Tok' = a.tok
            /\ stack' = Call([Top EXCEPT !.pc = "afterParen"], "parseExpr")
            /\ UNCHANGED <<HasError, diag, ret>>
       [] OTHER ->
            /\ IF NoFactor(Top.Res)
               THEN /\ HasError' = TRUE
                    /\ diag' = Append(diag, Unexpected(Tok))
               ELSE UNCHANGED <<HasError, diag>>
            /\ stack' = SetTop([Top EXCEPT !.pc = "skip"])
            /\ UNCHANGED <<BufferPtr, Tok, ret>>
  /\ UNCHANGED <<src, pc, Tree, sema, gen, status, run>>

\* parseFactor, lines 126-134: Res = the expression in parentheses; consume(")")
\* and return, or on a mismatch fall through to the default case
parseFactor_afterParen ==
  /\ Running("parseFactor", "afterParen")
  /\ IF ~expect(Tok, "r_paren")
     THEN LET a == advance(BufferPtr, Tok) IN
          /\ BufferPtr' = a.ptr
          /\ Tok' = a.tok
          /\ stack' = SubSeq(stack, 1, Len(stack) - 1)
          /\ UNCHANGED <<HasError, diag, ret>>
     ELSE /\ HasError' = TRUE
          /\ diag' = diag \o <<Unexpected(Tok)>>
                          \o (IF NoFactor(ret) THEN <<Unexpected(Tok)>> ELSE <<>>)
          /\ stack' = SetTop([Top EXCEPT !.pc = "skip", !.Res = ret])
          /\ UNCHANGED <<BufferPtr, Tok, ret>>
  /\ UNCHANGED <<src, pc, Tree, sema, gen, status, run>>

\* parseFactor, lines 137-141: one turn of the loop that skips to a
\* synchronizing token, or the return of Res
parseFactor_skip ==
  /\ Running("parseFactor", "skip")
  /\ IF ~IsSyncToken(Tok.Kind)
     THEN LET a == advance(BufferPtr, Tok) IN
          /\ BufferPtr' = a.ptr
          /\ Tok' = a.tok
          /\ UNCHANGED <<stack, ret>>
     ELSE /\ ret' = Top.Res
          /\ stack' = SubSeq(stack, 1, Len(stack) - 1)
          /\ UNCHANGED <<BufferPtr, Tok>>
  /\ UNCHANGED <<src, HasError, pc, Tree, diag, sema, gen, status, run>>

ParserStep ==
  \/ parse_call
  \/ parse_return
  \/ parseCalc_start
  \/ parseCalc_vars
  \/ parseCalc_afterExpr
  \/ parseCalc_error
  \/ parseExpr_start
  \/ parseExpr_gotTerm
  \/ parseTerm_start
  \/ parseTerm_gotFactor
  \/ parseFactor_start
  \/ parseFactor_afterParen
  \/ parseFactor_skip

----------------------------------------------------------------------------
(* Sema: src/simplecalc/src/Sema.cpp, class DeclCheck *)

\* DeclCheck::error(ET, V): the message, and HasError set
DeclError(st, ET, V) ==
  [st EXCEPT !.HasError = TRUE,
             !.errs = Append(@, [msg |-> IF ET = "Twice" THEN "already declared"
                                         ELSE "not declared",
                                 text |-> V])]

\* line 37 mutated: every name counts as declared
InScopeAlways(Scope, V) == TRUE
\* line 37: Scope.find(V) != Scope.end()
InScope(Scope, V) == V \in Scope

\* lines 64-65 mutated: the duplicate check stops the loop's reporting after
\* the first duplicate
InsertNameOnce(st, V) ==
  IF V \in st.Scope
  THEN (IF st.HasError THEN st ELSE DeclError(st, "Twice", V))
  ELSE [st EXCEPT !.Scope = @ \cup {V}]
\* lines 64-65: Scope.insert(V); a name already present is reported
InsertName(st, V) ==
  IF V \in st.Scope THEN DeclError(st, "Twice", V)
  ELSE [st EXCEPT !.Scope = @ \cup {V}]

\* lines 62-66: the loop over the declared names
RECURSIVE InsertNames(_, _)
InsertNames(st, Vars) ==
  IF Vars = <<>> THEN st ELSE InsertNames(InsertName(st, Head(Vars)), Tail(Vars))

\* lines 49, 55, 72 mutated: a missing child is passed over in silence
MissingChildIgnored(st) == st
\* lines 49, 55, 72: the else branch of a child that is not there
MissingChild(st) == [st EXCEPT !.HasError = TRUE]

\* DeclCheck::visit for the three node classes, lines 33-73; a null child
\* is never accepted: accept on it would be a call through a null pointer
RECURSIVE DeclCheckVisit(_, _)
DeclCheckVisit(st, Node) ==
  CASE Node.kind = "Number" -> st
    [] Node.kind = "Ident" ->
         IF InScope(st.Scope, Node.val) THEN st ELSE DeclError(st, "Not", Node.val)
    [] Node.kind = "BinaryOp" ->
         LET l == IF Node.left # NULL THEN DeclCheckVisit(st, Node.left)
                  ELSE MissingChild(st)
         IN IF Node.right # NULL THEN DeclCheckVisit(l, Node.right)
            ELSE MissingChild(l)
    [] Node.kind = "WithDecl" ->
         LET d == InsertNames(st, Node.vars)
         IN IF Node.expr # NULL THEN DeclCheckVisit(d, Node.expr)
            ELSE MissingChild(d)
    [] OTHER -> [st EXCEPT !.nullAccept = TRUE]

\* Sema::semantic(Tree), lines 80-93: the checker's final state
NewDeclCheck == [Scope |-> {}, HasError |-> FALSE, errs |-> <<>>, nullAccept |-> FALSE]
semantic(T) == IF T = NULL THEN NewDeclCheck ELSE DeclCheckVisit(NewDeclCheck, T)

----------------------------------------------------------------------------
(* CodeGen: src/unnamed/part_001, class ToIRVisitor *)

IntMin == -IntMax - 1

\* value handles: a constant, the result of the instruction at an index, or none
ConstVal(n) == [k |-> "const", v |-> n]
InstVal(i) == [k |-> "inst", v |-> i]
NullVal == [k |-> "null", v |-> 0]
Int32Zero == ConstVal(0)

Instr(op, a, b) == [op |-> op, a |-> a, b |-> b]

DigitValue(c) ==
  CASE c = "0" -> 0 [] c = "1" -> 1 [] c = "2" -> 2 [] c = "3" -> 3 [] c = "4" -> 4
    [] c = "5" -> 5 [] c = "6" -> 6 [] c = "7" -> 7 [] c = "8" -> 8 [] c = "9" -> 9

\* StringRef::getAsInteger(10, int&): [fail, val]; it fails, and assigns
\* nothing, when the value does not fit an int
RECURSIVE AccumulateDigits(_, _)
AccumulateDigits(text, acc) ==
  IF text = <<>> THEN [fail |-> FALSE, val |-> acc]
  ELSE LET d == DigitValue(Head(text)) IN
       IF acc > (IntMax - d) \div 10 THEN [fail |-> TRUE, val |-> 0]
       ELSE AccumulateDigits(Tail(text), acc * 10 + d)
getAsInteger(text) ==
  IF text = <<>> THEN [fail |-> TRUE, val |-> 0] ELSE AccumulateDigits(text, 0)

\* the values an int that was never assigned may hold
Uninitialized == {IntMin, -1, 0, 7, IntMax}

\* the number literals of a tree whose conversion fails, in evaluation order
RECURSIVE FailingLiterals(_)
FailingLiterals(Node) ==
  CASE Node.kind = "Number" -> IF getAsInteger(Node.val).fail THEN 1 ELSE 0
    [] Node.kind = "Ident" -> 0
    [] Node.kind = "BinaryOp" -> FailingLiterals(Node.left) + FailingLiterals(Node.right)
    [] Node.kind = "WithDecl" -> FailingLiterals(Node.expr)
    [] OTHER -> 0

\* Builder.Create...: the instruction is appended and its result is V (every
\* Create call is taken to yield an instruction; the builder's folding of
\* constant operands is not modelled)
Emit(g, ins) ==
  [g EXCEPT !.instrs = Append(@, ins), !.V = InstVal(Len(g.instrs) + 1)]

\* lines 77-90 mutated: Minus lowered as an addition
ArithOpcodeSubAsAdd(Op) ==
  CASE Op = "Plus" -> "add nsw" [] Op = "Minus" -> "add nsw"
    [] Op = "Mul" -> "mul nsw" [] Op = "Div" -> "sdiv"
\* lines 77-90: the instruction chosen for an operator
ArithOpcode(Op) ==
  CASE Op = "Plus" -> "add nsw" [] Op = "Minus" -> "sub nsw"
    [] Op = "Mul" -> "mul nsw" [] Op = "Div" -> "sdiv"

\* lines 79-88 mutated: the operands are passed right first
BinaryInstrSwapped(Op, Left, Right) == Instr(ArithOpcode(Op), Right, Left)
\* lines 79-88: Builder.Create<Op>(Left, Right)
BinaryInstr(Op, Left, Right) == Instr(ArithOpcode(Op), Left, Right)

\* lines 100-110 mutated: the names are read last to first
ReadOrderReversed(Vars) == [i \in 1..Len(Vars) |-> Vars[Len(Vars) + 1 - i]]
\* lines 100-110: the order in which the loop visits the declared names
ReadOrder(Vars) == Vars

\* lines 100-110: one calc_read call per name, bound in nameMap
RECURSIVE ReadNames(_, _)
ReadNames(g, Vars) ==
  IF Vars = <<>> THEN g
  ELSE LET Var == Head(Vars)
           c == Emit(g, Instr("call calc_read", [k |-> "str", v |-> Var], NullVal))
       IN ReadNames([c EXCEPT !.nameMap = [n \in DOMAIN c.nameMap \cup {Var} |->
                                            IF n = Var THEN c.V ELSE c.nameMap[n]]],
                    Tail(Vars))

\* ToIRVisitor::visit for the three node classes, lines 54-114.  g.junk holds
\* the values the unassigned intval of line 60 takes, one per failing literal.
RECURSIVE ToIRVisit(_, _)
ToIRVisit(g, Node) ==
  CASE Node.kind = "Ident" ->
         IF Node.val \in DOMAIN g.nameMap
         THEN [g EXCEPT !.V = g.nameMap[Node.val]]
         ELSE [g EXCEPT !.V = NullVal,
                        !.miss = @ + 1,
                        !.nameMap = [n \in DOMAIN g.nameMap \cup {Node.val} |->
                                      IF n = Node.val THEN NullVal ELSE g.nameMap[n]]]
    [] Node.kind = "Number" ->
         LET r == getAsInteger(Node.val) IN
         IF r.fail
         THEN [g EXCEPT !.V = ConstVal(Head(g.junk)), !.junk = Tail(@), !.convFail = @ + 1]
         ELSE [g EXCEPT !.V = ConstVal(r.val)]
    [] Node.kind = "BinaryOp" ->
         LET l == ToIRVisit(g, Node.left)
             r == ToIRVisit(l, Node.right)
         IN Emit(r, BinaryInstr(Node.op, l.V, r.V))
    [] Node.kind = "WithDecl" ->
         ToIRVisit(ReadNames(g, ReadOrder(Node.vars)), Node.expr)
    [] OTHER -> [g EXCEPT !.crash = TRUE]   \* accept() called through a null pointer

\* ToIRVisitor::run, lines 34-51, and CodeGen::compile: the module's main
ToIRRun(T, junk) ==
  LET g0 == [instrs |-> <<>>, V |-> NullVal, nameMap |-> <<>>, miss |-> 0,
             convFail |-> 0, junk |-> junk, crash |-> FALSE]
      g1 == ToIRVisit(g0, T)
      g2 == Emit(g1, Instr("call calc_write", g1.V, NullVal))
  IN [g2 EXCEPT !.instrs = Append(@, Instr("ret", Int32Zero, NullVal)), !.V = g1.V]

----------------------------------------------------------------------------
(* The generated program, run against the runtime of src/unnamed/part_000 *)

\* the values typed in answer to calc_read's prompt
ReadVals == {6, 2, 0, -7, IntMax}

IntV(n) == [k |-> "int", v |-> n]
Poison == [k |-> "poison", v |-> 0]

AddOverflows(a, b) == (b > 0 /\ a > IntMax - b) \/ (b < 0 /\ a < IntMin - b)
SubOverflows(a, b) == (b < 0 /\ a > IntMax + b) \/ (b > 0 /\ a < IntMin + b)
\* a * b = 2^31 for positive a, b
IsTwoTo31(a, b) == IntMax \div b = a - 1 /\ IntMax % b = b - 1
MulOverflows(a, b) ==
  CASE a = 0 \/ b = 0 -> FALSE
    [] a = IntMin -> b # 1
    [] b = IntMin -> a # 1
    [] a > 0 /\ b > 0 -> a > IntMax \div b
    [] a < 0 /\ b < 0 -> (-a) > IntMax \div (-b)
    [] a > 0 /\ b < 0 -> a > IntMax \div (-b) /\ ~IsTwoTo31(a, -b)
    [] OTHER -> (-a) > IntMax \div b /\ ~IsTwoTo31(-a, b)

\* the quotient rounded toward zero, for b > 0
TruncDivPos(a, b) ==
  IF a >= 0 THEN a \div b
  ELSE LET f == a \div b IN IF a % b = 0 THEN f ELSE f + 1
\* sdiv, for b # 0 and not (a = IntMin and b = -1)
TruncDiv(a, b) ==
  IF b > 0 THEN TruncDivPos(a, b)
  ELSE IF b = IntMin THEN (IF a = IntMin THEN 1 ELSE 0)
  ELSE -TruncDivPos(a, -b)

\* the result of one arithmetic instruction on operand values x and y; "ub"
\* where the instruction's behaviour is undefined
Arith(op, x, y) ==
  IF op = "sdiv" /\ y.k # "int" THEN [k |-> "ub", v |-> 0]
  ELSE IF x.k # "int" \/ y.k # "int" THEN Poison
  ELSE CASE op = "add nsw" ->
              IF AddOverflows(x.v, y.v) THEN Poison ELSE IntV(x.v + y.v)
         [] op = "sub nsw" ->
              IF SubOverflows(x.v, y.v) THEN Poison ELSE IntV(x.v - y.v)
         [] op = "mul nsw" ->
              IF MulOverflows(x.v, y.v) THEN Poison ELSE IntV(x.v * y.v)
         [] op = "sdiv" ->
              IF y.v = 0 \/ (x.v = IntMin /\ y.v = -1) THEN [k |-> "ub", v |-> 0]
              ELSE IntV(TruncDiv(x.v, y.v))

\* the run-time value of a handle
ValueOf(h, vals) ==
  CASE h.k = "const" -> IntV(h.v)
    [] h.k = "inst" -> vals[h.v]
    [] OTHER -> Poison

\* main of the generated module from instruction i on, as far as its
\* behaviour is defined: [out, ub, status, at]; at names where it stops
\* being defined: a poison value handed to calc_write, or an sdiv
RECURSIVE Execute(_, _, _, _, _)
Execute(instrs, i, vals, inputs, out) ==
  IF i > Len(instrs) THEN [out |-> out, ub |-> FALSE, status |-> -1, at |-> "none"]
  ELSE LET ins == instrs[i] IN
    CASE ins.op = "call calc_read" ->
           Execute(instrs, i + 1, Append(vals, IntV(inputs[ins.a.v])), inputs, out)
      [] ins.op = "call calc_write" ->
           LET x == ValueOf(ins.a, vals) IN
           IF x.k # "int" THEN [out |-> out, ub |-> TRUE, status |-> -1, at |-> "poison"]
           ELSE Execute(instrs, i + 1, Append(vals, Poison), inputs, Append(out, x.v))
      [] ins.op = "ret" -> [out |-> out, ub |-> FALSE, status |-> ins.a.v, at |-> "none"]
      [] OTHER ->
           LET x == Arith(ins.op, ValueOf(ins.a, vals), ValueOf(ins.b, vals)) IN
           IF x.k = "ub" THEN [out |-> out, ub |-> TRUE, status |-> -1, at |-> "sdiv"]
           ELSE Execute(instrs, i + 1, Append(vals, x), inputs, out)

\* the values a register holding a poison value may turn out to hold
PoisonVals == {IntMin, -1, 0, 7, IntMax}

\* what a build of the module does on a run r of Execute.  A poison value is
\* an ordinary register at run time: calc_write prints whatever it holds and
\* main returns 0.  An undefined sdiv either raises the processor's divide
\* error, which ends the process, or yields some value that is then printed.
Outcomes(r) ==
  LET printed == {[out |-> Append(r.out, v), status |-> 0, trap |-> FALSE] : v \in PoisonVals}
  IN CASE r.at = "poison" -> printed
       [] r.at = "sdiv" -> printed \cup {[out |-> r.out, status |-> -1, trap |-> TRUE]}
       [] OTHER -> {[out |-> r.out, status |-> r.status, trap |-> FALSE]}

----------------------------------------------------------------------------
(* main: src/unnamed/part_003 *)

\* line 34 mutated: only the null tree is checked
SyntaxFailedTreeOnly(T, E) == T = NULL
\* line 34: !Tree || Parser.hasError()
SyntaxFailed(T, E) == T = NULL \/ E

\* line 42 mutated: the result of the semantic check is ignored
SemanticFailedNever(st) == FALSE
\* line 42: what Semantic.semantic(Tree) returns
SemanticFailed(st) == st.HasError

Line(msg) == [msg |-> msg, text |-> <<>>]

\* lines 34-37
CheckSyntax ==
  /\ pc = "parsed"
  /\ IF SyntaxFailed(Tree, HasError)
     THEN /\ diag' = Append(diag, Line("Syntax errors occured"))
          /\ status' = 1
          /\ pc' = "exit"
     ELSE /\ pc' = "sema"
          /\ UNCHANGED <<diag, status>>
  /\ UNCHANGED <<src, BufferPtr, Tok, HasError, stack, ret, Tree, sema, gen, run>>

\* lines 41-45
CheckSemantics ==
  /\ pc = "sema"
  /\ LET st == semantic(Tree) IN
     /\ sema' = [ran |-> TRUE, HasError |-> st.HasError, Scope |-> st.Scope,
                 errs |-> st.errs, nullAccept |-> st.nullAccept]
     /\ IF SemanticFailed(st)
        THEN /\ diag' = diag \o st.errs \o <<Line("Semantic errors occured")>>
             /\ status' = 1
             /\ pc' = "exit"
        ELSE /\ diag' = diag \o st.errs
             /\ pc' = "codegen"
             /\ UNCHANGED status
  /\ UNCHANGED <<src, BufferPtr, Tok, HasError, stack, ret, Tree, gen, run>>

\* lines 49-52
Compile ==
  /\ pc = "codegen"
  /\ \E junk \in [1..FailingLiterals(Tree) -> Uninitialized] :
       LET g == ToIRRun(Tree, junk) IN
       gen' = [ran |-> TRUE, instrs |-> g.instrs, V |-> g.V, nameMap |-> g.nameMap,
               miss |-> g.miss, convFail |-> g.convFail, crash |-> g.crash,
               intvals |-> junk]
  /\ status' = 0
  /\ pc' = "exit"
  /\ UNCHANGED <<src, BufferPtr, Tok, HasError, stack, ret, Tree, diag, sema, run>>

\* the names the generated program reads
DeclaredNames == IF Tree.kind = "WithDecl" THEN {Tree.vars[i] : i \in DOMAIN Tree.vars} ELSE {}

\* the emitted module is run; every calc_read is answered from inputs
RunGenerated ==
  /\ pc = "exit"
  /\ gen.ran
  /\ ~gen.crash
  /\ ~run.ran
  /\ \E inputs \in [DeclaredNames -> ReadVals] :
       LET r == Execute(gen.instrs, 1, <<>>, inputs, <<>>) IN
       \E o \in Outcomes(r) :
         run' = [ran |-> TRUE, inputs |-> inputs, out |-> o.out, ub |-> r.ub,
                 status |-> o.status, trap |-> o.trap]
  /\ UNCHANGED <<src, BufferPtr, Tok, HasError, stack, ret, pc, Tree, diag, sema, gen, status>>

----------------------------------------------------------------------------

Init ==
  /\ src \in Sources
  /\ BufferPtr = 1
  /\ Tok = [Kind |-> "none", Text |-> <<>>]
  /\ HasError = FALSE
  /\ stack = <<>>
  /\ ret = NULL
  /\ pc = "ctor"
  /\ Tree = NULL
  /\ diag = <<>>
  /\ sema = [ran |-> FALSE, HasError |-> FALSE, Scope |-> {}, errs |-> <<>>,
             nullAccept |-> FALSE]
  /\ gen = [ran |-> FALSE, instrs |-> <<>>, V |-> NullVal, nameMap |-> <<>>,
            miss |-> 0, convFail |-> 0, crash |-> FALSE, intvals |-> <<>>]
  /\ status = -1
  /\ run = [ran |-> FALSE, inputs |-> <<>>, out |-> <<>>, ub |-> FALSE, status |-> -1,
            trap |-> FALSE]

Next ==
  \/ ParserCtor
  \/ ParserStep
  \/ CheckSyntax
  \/ CheckSemantics
  \/ Compile
  \/ RunGenerated

Spec == Init /\ [][Next]_vars

\* the parser is ordinary sequential code: while a step of it can be taken,
\* one is taken
FairSpec == Spec /\ WF_vars(ParserCtor \/ ParserStep)

\* Sema::semantic called on whatever parse() returned, without the test of
\* main line 34 in front of it
SemanticOnReturned ==
  /\ pc = "parsed"
  /\ LET st == semantic(Tree) IN
     /\ sema' = [ran |-> TRUE, HasError |-> st.HasError, Scope |-> st.Scope,
                 errs |-> st.errs, nullAccept |-> st.nullAccept]
     /\ diag' = diag \o st.errs
     /\ status' = IF SemanticFailed(st) THEN 1 ELSE 0
  /\ pc' = "exit"
  /\ UNCHANGED <<src, BufferPtr, Tok, HasError, stack, ret, Tree, gen, run>>

NextSema ==
  \/ ParserCtor
  \/ ParserStep
  \/ SemanticOnReturned

SemaSpec == Init /\ [][NextSema]_vars

----------------------------------------------------------------------------
(* Reference definitions for the properties: the token stream of the       *)
(* source, the grammar as a set of sentences, and the tree the grammar     *)
(* gives a sentence, each defined by splitting the token sequence and not  *)
(* by descent.                                                             *)

ParseReturned == pc \notin {"ctor", "parse"}
ParseClean == ParseReturned /\ Tree # NULL /\ ~HasError

\* all tokens of the source, end-of-input left out
Tokens == TokensFrom(src, 1, [Kind |-> "none", Text |-> <<>>])
Kinds(ts) == [i \in DOMAIN ts |-> ts[i].Kind]

CountIn(ts, lo, hi, kind) == Cardinality({i \in lo..hi : ts[i].Kind = kind})
\* position i of ts lies inside no parentheses
TopLevel(ts, i) == CountIn(ts, 1, i - 1, "l_paren") = CountIn(ts, 1, i - 1, "r_paren")
\* the positions of ts that hold one of kinds outside all parentheses
TopLevelAt(ts, kinds) == {i \in DOMAIN ts : ts[i].Kind \in kinds /\ TopLevel(ts, i)}
Max(S) == CHOOSE m \in S : \A n \in S : n <= m
Before(ts, i) == SubSeq(ts, 1, i - 1)
After(ts, i) == SubSeq(ts, i + 1, Len(ts))

\* Factor := Number | Ident | "(" Expr ")"
\* Term   := Factor (("*" | "/") Factor)*
\* Expr   := Term (("+" | "-") Term)*
RECURSIVE IsExpr(_), IsTerm(_), IsFactor(_)
IsFactor(ts) ==
  \/ Len(ts) = 1 /\ ts[1].Kind \in {"number", "ident"}
  \/ /\ Len(ts) >= 3
     /\ ts[1].Kind = "l_paren"
     /\ ts[Len(ts)].Kind = "r_paren"
     /\ IsExpr(SubSeq(ts, 2, Len(ts) - 1))
IsTerm(ts) ==
  \/ IsFactor(ts)
  \/ \E i \in DOMAIN ts :
       ts[i].Kind \in {"star", "slash"} /\ IsFactor(After(ts, i)) /\ IsTerm(Before(ts, i))
IsExpr(ts) ==
  \/ IsTerm(ts)
  \/ \E i \in DOMAIN ts :
       ts[i].Kind \in {"plus", "minus"} /\ IsTerm(After(ts, i)) /\ IsExpr(Before(ts, i))

\* Ident ("," Ident)*
IsNameList(ts) ==
  /\ Len(ts) % 2 = 1
  /\ \A i \in DOMAIN ts : ts[i].Kind = (IF i % 2 = 1 THEN "ident" ELSE "comma")

\* the position of the ":" that ends a declaration: the first one
ColonAt(ts) ==
  IF \E i \in DOMAIN ts : ts[i].Kind = "colon"
  THEN CHOOSE i \in DOMAIN ts : ts[i].Kind = "colon" /\ \A j \in 1..(i - 1) : ts[j].Kind # "colon"
  ELSE 0

\* Calc := ("with" Ident ("," Ident)* ":")? Expr
IsCalc(ts) ==
  \/ IsExpr(ts)
  \/ /\ Len(ts) >= 4
     /\ ts[1].Kind = "KW_with"
     /\ ColonAt(ts) > 2
     /\ IsNameList(SubSeq(ts, 2, ColonAt(ts) - 1))
     /\ IsExpr(After(ts, ColonAt(ts)))

\* of a sentence: the tokens of its expression, and its declared names
BodyTokens(ts) == IF ts # <<>> /\ ts[1].Kind = "KW_with" THEN After(ts, ColonAt(ts)) ELSE ts
DeclTokens(ts) ==
  IF ts # <<>> /\ ts[1].Kind = "KW_with"
  THEN SelectSeq(SubSeq(ts, 2, ColonAt(ts) - 1), LAMBDA t : t.Kind = "ident")
  ELSE <<>>
Texts(ts) == [i \in DOMAIN ts |-> ts[i].Text]
Range(f) == {f[i] : i \in DOMAIN f}

OperatorOf(kind) ==
  CASE kind = "plus" -> "Plus" [] kind = "minus" -> "Minus"
    [] kind = "star" -> "Mul" [] kind = "slash" -> "Div"

\* the tree of an expression under the usual reading: the last "+" or "-"
\* outside parentheses is the root; failing that the last "*" or "/"; failing
\* that the expression is an atom or a group
RECURSIVE RefTree(_)
RefTree(ts) ==
  LET adds == TopLevelAt(ts, {"plus", "minus"})
      muls == TopLevelAt(ts, {"star", "slash"})
      at == IF adds # {} THEN Max(adds) ELSE Max(muls)
  IN IF adds # {} \/ muls # {}
     THEN BinaryOp(OperatorOf(ts[at].Kind), RefTree(Before(ts, at)), RefTree(After(ts, at)))
     ELSE IF ts[1].Kind = "l_paren" THEN RefTree(SubSeq(ts, 2, Len(ts) - 1))
     ELSE Factor(IF ts[1].Kind = "number" THEN "Number" ELSE "Ident", ts[1].Text)

\* the value of a variable in the reference evaluation
EvalEnv(name) ==
  CASE name = LxA -> 6 [] name = LxB -> 2 [] name = LxC -> 5 [] OTHER -> 3

\* no literal of the expression has more than four digits
ShortLiterals(ts) == \A i \in DOMAIN ts : ts[i].Kind = "number" => Len(ts[i].Text) <= 4

RECURSIVE DecimalValue(_)
DecimalValue(text) ==
  IF text = <<>> THEN 0
  ELSE 10 * DecimalValue(SubSeq(text, 1, Len(text) - 1)) + DigitValue(text[Len(text)])

\* the integer an expression tree denotes, with division rounding toward
\* zero; def is FALSE when a division by zero occurs in it
RECURSIVE Eval(_)
Eval(Node) ==
  CASE Node.kind = "Number" -> [def |-> TRUE, v |-> DecimalValue(Node.val)]
    [] Node.kind = "Ident" -> [def |-> TRUE, v |-> EvalEnv(Node.val)]
    [] Node.kind = "WithDecl" -> Eval(Node.expr)
    [] Node.kind = "BinaryOp" ->
         LET l == Eval(Node.left)
             r == Eval(Node.right)
         IN IF ~l.def \/ ~r.def \/ (Node.op = "Div" /\ r.v = 0)
            THEN [def |-> FALSE, v |-> 0]
            ELSE [def |-> TRUE,
                  v |-> CASE Node.op = "Plus" -> l.v + r.v
                          [] Node.op = "Minus" -> l.v - r.v
                          [] Node.op = "Mul" -> l.v * r.v
                          [] Node.op = "Div" -> TruncDiv(l.v, r.v)]

\* the expression of main's Tree
Body == IF Tree.kind = "WithDecl" THEN Tree.expr ELSE Tree

----------------------------------------------------------------------------
(* Properties *)

\* C1: code generation runs only after a parse that returned a tree with the
\* failure flag clear and a semantic check that reported no error; a parse
\* error or a semantic error ends main with status 1 and no later phase has
\* run; status 0 is given only after code generation ran.
C1_DriverGatesPhases ==
  /\ gen.ran => Tree # NULL /\ ~HasError /\ sema.ran /\ ~sema.HasError
  /\ sema.ran => Tree # NULL /\ ~HasError
  /\ pc = "exit" => status \in {0, 1}
  /\ pc = "exit" /\ HasError => status = 1 /\ ~sema.ran /\ ~gen.ran
  /\ pc = "exit" /\ sema.HasError => status = 1 /\ ~gen.ran
  /\ pc = "exit" /\ status = 0 => gen.ran
  /\ pc # "exit" => status = -1 /\ ~gen.ran

C1_Witness == pc = "exit" /\ status = 0 /\ gen.ran /\ Tree.kind = "WithDecl"

\* C2: for an error-free expression the tree built is the tree of the usual
\* reading ("*" and "/" bind tighter than "+" and "-", each tier folded to the
\* left), so its value is the reference value; 1+2*3 is 7 and (1+2)*3 is 9.
C2_PrecedenceAndLeftFold ==
  ParseClean =>
    /\ Body = RefTree(BodyTokens(Tokens))
    /\ ShortLiterals(Tokens) => Eval(Body) = Eval(RefTree(BodyTokens(Tokens)))
    /\ src = Ex_1p2m3 => Eval(Tree) = [def |-> TRUE, v |-> 7]
    /\ src = Ex_p1p2pm3 => Eval(Tree) = [def |-> TRUE, v |-> 9]
    /\ src = <<"8", "-", "3", "-", "2">> => Eval(Tree) = [def |-> TRUE, v |-> 3]
    /\ src = <<"8", "/", "3", "/", "2">> => Eval(Tree) = [def |-> TRUE, v |-> 1]

C2_Witness ==
  /\ ParseClean
  /\ src = <<"8", "-", "3", "*", "2", "-", "5">>
  /\ Eval(Tree) = [def |-> TRUE, v |-> -3]

\* C3: parse() returns a tree with the failure flag clear exactly when the
\* whole token stream is one sentence of Calc.
C3_CleanIffSentence ==
  ParseReturned => ((Tree # NULL /\ ~HasError) <=> IsCalc(Tokens))

C3_Witness ==
  /\ ParseReturned
  /\ HasError
  /\ Kinds(Tokens) = <<"l_paren", "l_paren", "number", "r_paren", "star", "ident">>

\* C4: on every input parse() returns, and from its return on the parser's
\* current token is end-of-input; each turn of either recovery loop moves the
\* lexer forward or reaches end-of-input, and the lexer never moves past the
\* terminating NUL.
C4_ParseTerminatesAtEoi ==
  /\ <>ParseReturned
  /\ [](ParseReturned => Tok.Kind = "eoi")
  /\ [](BufferPtr <= Len(src) + 1)
  /\ [][(parseCalc_error \/ parseFactor_skip) /\ stack' = stack
          => BufferPtr' > BufferPtr \/ (Tok.Kind # "eoi" /\ Tok'.Kind = "eoi")]_vars

C4_Witness ==
  /\ src = Ex_withColon1
  /\ pc = "parsed"
  /\ Tree = NULL
  /\ HasError
  /\ diag = <<[msg |-> "Unexpected", text |-> LxColon]>>
  /\ Tok.Kind = "eoi"

TwiceErrs == SelectSeq(sema.errs, LAMBDA e : e.msg = "already declared")
NotErrs == SelectSeq(sema.errs, LAMBDA e : e.msg = "not declared")
ErrTexts(es) == [i \in DOMAIN es |-> es[i].text]
\* the names declared by the source, in source order, and those of them that
\* repeat an earlier one
DeclaredTexts == Texts(DeclTokens(Tokens))
RECURSIVE Repeats(_, _)
Repeats(ns, i) ==
  IF i > Len(ns) THEN <<>>
  ELSE (IF \E j \in 1..(i - 1) : ns[j] = ns[i] THEN <<ns[i]>> ELSE <<>>) \o Repeats(ns, i + 1)
Occurrences(ns, n) == Cardinality({i \in DOMAIN ns : ns[i] = n})
\* the identifiers used in the expression that are not declared, in source order
UndeclaredUses ==
  Texts(SelectSeq(BodyTokens(Tokens),
                  LAMBDA t : t.Kind = "ident" /\ t.Text \notin Range(DeclaredTexts)))

\* C5: the check of a declaration reports "already declared" once for each
\* occurrence of a name that repeats an earlier one, in declaration order (a
\* name listed k times: k-1 reports), the scope ends up holding every listed
\* name, and the body is still checked.
C5_DuplicateDeclarations ==
  sema.ran /\ Tree.kind = "WithDecl" =>
    /\ ErrTexts(TwiceErrs) = Repeats(DeclaredTexts, 1)
    /\ \A n \in Range(DeclaredTexts) :
         Occurrences(ErrTexts(TwiceErrs), n) = Occurrences(DeclaredTexts, n) - 1
    /\ sema.Scope = Range(DeclaredTexts)
    /\ Len(NotErrs) = Len(UndeclaredUses)
    /\ sema.errs = TwiceErrs \o NotErrs
    /\ src = Ex_withXX => sema.errs = <<[msg |-> "already declared", text |-> LxX]>>

C5_Witness ==
  /\ sema.ran
  /\ Tree.kind = "WithDecl"
  /\ Tree.vars = <<LxA, LxB, LxA>>
  /\ ErrTexts(TwiceErrs) = <<LxA>>
  /\ ErrTexts(NotErrs) = <<LxC, LxC>>

\* C6: the check reports "not declared" exactly once for each identifier
\* occurrence of the expression whose name is not declared, in source order,
\* and for nothing else: not for a declared identifier, not for an unused
\* declaration.
C6_UndeclaredVariables ==
  sema.ran =>
    /\ ErrTexts(NotErrs) = UndeclaredUses
    /\ Tree.kind # "WithDecl" => sema.errs = NotErrs
    /\ src = Ex_withXY => sema.errs = <<[msg |-> "not declared", text |-> LxY]>>
    /\ sema.HasError <=> sema.errs # <<>>

C6_Witness ==
  /\ sema.ran
  /\ Tree.kind = "WithDecl"
  /\ Tree.vars = <<LxB, LxC>>
  /\ sema.errs = <<[msg |-> "not declared", text |-> LxA]>>

ArithOps == {"add nsw", "sub nsw", "mul nsw", "sdiv"}
\* the handle of the value of the root of the expression, given the emitted
\* instructions: the last arithmetic instruction, the read of the name, or
\* the constant
RootHandle ==
  CASE Body.kind = "BinaryOp" -> InstVal(Len(gen.instrs) - 2)
    [] Body.kind = "Ident" ->
         InstVal(CHOOSE i \in DOMAIN DeclaredTexts : DeclaredTexts[i] = Body.val)
    [] OTHER -> gen.V

\* C7: the emitted main is: one calc_read call per declared name, in
\* declaration order, each given that name; then only arithmetic; then one
\* calc_write call given the value of the root; then ret 0.
C7_EmittedCallSequence ==
  gen.ran =>
    LET n == Len(DeclaredTexts)
        L == Len(gen.instrs)
    IN /\ L >= n + 2
       /\ \A i \in 1..n :
            gen.instrs[i] = Instr("call calc_read", [k |-> "str", v |-> DeclaredTexts[i]], NullVal)
       /\ \A i \in (n + 1)..(L - 2) : gen.instrs[i].op \in ArithOps
       /\ gen.instrs[L - 1] = Instr("call calc_write", RootHandle, NullVal)
       /\ gen.instrs[L] = Instr("ret", ConstVal(0), NullVal)
       /\ Body.kind = "Number" => gen.V.k = "const"

C7_Witness ==
  /\ gen.ran
  /\ src = Ex_withAB
  /\ Len(gen.instrs) = 7
  /\ gen.instrs[1].a.v = LxA
  /\ gen.instrs[2].a.v = LxB
  /\ gen.instrs[6].op = "call calc_write"

C8_Case ==
  /\ src = Ex_withAB
  /\ run.ran
  /\ run.inputs[LxA] = 6
  /\ run.inputs[LxB] = 2

\* C8 as stated: 'with a, b: a*b - a/b' run with a = 6 and b = 2 writes 10.
C8_WritesTen == C8_Case => run.out = <<10>>

\* C8, amended: 'with a, b: a*b - a/b' run with a = 6 and b = 2 writes 9
\* (6*2 - 6/2), once, and the program returns 0.
C8_WritesNine == C8_Case => run.out = <<9>> /\ ~run.ub /\ run.status = 0

C8_Witness == C8_Case /\ run.out = <<9>>

DigitChar(d) == CHOOSE c \in Digits : DigitValue(c) = d
RECURSIVE NatText(_)
NatText(n) ==
  IF n < 10 THEN <<DigitChar(n)>> ELSE NatText(n \div 10) \o <<DigitChar(n % 10)>>
RECURSIVE StripZeros(_)
StripZeros(text) ==
  IF Len(text) > 1 /\ Head(text) = "0" THEN StripZeros(Tail(text)) ELSE text

\* C9: for a source that is one number literal d, the conversion of d does
\* not fail and the constant emitted is the base-10 value of d (its decimal
\* spelling is d without leading zeros).
C9_LiteralValue ==
  gen.ran /\ Tree.kind = "Number" =>
    /\ gen.convFail = 0
    /\ gen.V.k = "const"
    /\ gen.V.v >= 0
    /\ NatText(gen.V.v) = StripZeros(Tree.val)

\* C10: when code generation runs, no identifier lookup misses: every
\* identifier of the expression has an entry in the name table, and the entry
\* is the result of the calc_read call emitted for that name.
C10_NoLookupMiss ==
  gen.ran =>
    /\ gen.miss = 0
    /\ ~gen.crash
    /\ \A i \in DOMAIN BodyTokens(Tokens) :
         LET t == BodyTokens(Tokens)[i] IN
         t.Kind = "ident" =>
           /\ t.Text \in DOMAIN gen.nameMap
           /\ gen.nameMap[t.Text].k = "inst"
           /\ gen.instrs[gen.nameMap[t.Text].v].op = "call calc_read"
           /\ gen.instrs[gen.nameMap[t.Text].v].a.v = t.Text

C10_Witness ==
  /\ gen.ran
  /\ Tree.kind = "WithDecl"
  /\ Tree.vars = <<LxC, LxA>>
  /\ Body = BinaryOp("Plus", BinaryOp("Plus", Factor("Ident", LxC), Factor("Ident", LxA)),
                     Factor("Ident", LxC))
  /\ gen.nameMap[LxC] = InstVal(1)

\* the source text the current token covers: the characters that end just
\* before the lexer's cursor; nothing for end-of-input
Covered(t, p) == IF t.Kind = "eoi" THEN <<>> ELSE SubSeq(src, p - Len(t.Text), p - 1)

\* C11: while the parser runs, the text of its current token is the source
\* substring the token covers (empty for end-of-input), and every syntax
\* error recorded reports the text covered by the token that is current when
\* it is recorded.
C11_TokenTextIsCovered ==
  [][pc' = "parse" =>
       /\ Tok'.Text = Covered(Tok', BufferPtr')
       /\ Len(diag') > Len(diag) => diag'[Len(diag')].text = Covered(Tok', BufferPtr')]_vars

\* the kind of each punctuation character
PunctuationKinds ==
  {<<"+", "plus">>, <<"-", "minus">>, <<"*", "star">>, <<"/", "slash">>,
   <<"(", "l_paren">>, <<")", "r_paren">>, <<":", "colon">>, <<",", "comma">>}
Punctuation == {pk[1] : pk \in PunctuationKinds}
AllIn(text, class) == \A i \in DOMAIN text : text[i] \in class

\* token t, ending just before index p of the source, is formed by the rules
WellFormedToken(t, p) ==
  LET text == SubSeq(src, p - Len(t.Text), p - 1)
      c == text[1]
  IN /\ Len(t.Text) >= 1
     /\ p - Len(t.Text) >= 1
     /\ t.Text = text
     /\ c \notin Whitespace
     /\ CASE c \in Letters ->
               /\ AllIn(text, Letters)
               /\ CharAt(src, p) \notin Letters
               /\ t.Kind = (IF text = <<"w", "i", "t", "h">> THEN "KW_with" ELSE "ident")
          [] c \in Digits ->
               /\ AllIn(text, Digits)
               /\ CharAt(src, p) \notin Digits
               /\ t.Kind = "number"
          [] c \in Punctuation -> Len(text) = 1 /\ <<c, t.Kind>> \in PunctuationKinds
          [] OTHER -> Len(text) = 1 /\ t.Kind = "unknown"

\* C12: the lexer classifies by the rules: the current token is a maximal run
\* of letters (kw-with exactly for "with", else identifier), a maximal run of
\* digits (number), one punctuation character of its own kind, or one other
\* character (unknown); it is at least one character long and ends at the
\* cursor; end-of-input is given only at the end of the buffer, which the
\* cursor never passes; and the tokens of a source, written one after
\* another, are the source without its whitespace.
C12_LexerClassifies ==
  /\ BufferPtr \in 1..(Len(src) + 1)
  /\ pc = "parse" =>
       IF Tok.Kind = "eoi" THEN BufferPtr = Len(src) + 1
       ELSE WellFormedToken(Tok, BufferPtr)
  /\ pc = "parse" => Concat(Texts(Tokens)) = SelectSeq(src, LAMBDA c : c \notin Whitespace)
  /\ src = <<"w", "i", "t", "h", "x">> /\ pc = "parse" => Kinds(Tokens) = <<"ident">>
  /\ src = <<"x", "1">> /\ pc = "parse" => Kinds(Tokens) = <<"ident", "number">>

C12_Witness ==
  /\ pc = "parse"
  /\ src = <<"w", "i", "t", "h", "x", "1">>
  /\ Tok = [Kind |-> "number", Text |-> <<"1">>]
  /\ BufferPtr = 7
  /\ ret = Factor("Ident", <<"w", "i", "t", "h", "x">>)

Returns == Len(stack') < Len(stack)

\* C13: when parseFactor returns after a mismatch (no factor, or a missing
\* ")"), the current token is one of ")", "*", "+", "-", "/", end-of-input
\* and the failure flag is set; when parseCalc returns by its error path it
\* returns null with every remaining token discarded and the current token
\* end-of-input; the failure flag, once set, stays set.
C13_PanicModeRecovery ==
  [][/\ Running("parseFactor", "skip") =>
          /\ HasError
          /\ Returns =>
               /\ Tok'.Kind \in {"r_paren", "star", "plus", "minus", "slash", "eoi"}
               /\ HasError'
     /\ Running("parseCalc", "error") =>
          /\ HasError
          /\ Returns =>
               /\ ret' = NULL
               /\ Tok'.Kind = "eoi"
               /\ BufferPtr' = Len(src) + 1
               /\ HasError'
     /\ HasError => HasError']_vars

C13_Witness ==
  /\ pc = "parse"
  /\ src = Join(<<LxLParen, LxAt, LxRParen>>)
  /\ Top.fn = "parseTerm"
  /\ ret = NULL
  /\ Tok.Kind = "r_paren"
  /\ HasError

\* a tree with nothing missing: every BinaryOp has both children, a
\* declaration has a name and a body
RECURSIVE Complete(_)
Complete(Node) ==
  CASE Node.kind = "null" -> FALSE
    [] Node.kind \in {"Number", "Ident"} -> TRUE
    [] Node.kind = "BinaryOp" -> Complete(Node.left) /\ Complete(Node.right)
    [] Node.kind = "WithDecl" -> Len(Node.vars) >= 1 /\ Complete(Node.expr)
Partial(Node) == Node.kind # "null" /\ ~Complete(Node)

\* the identifiers of the factors that are present in a tree, left to right
RECURSIVE PresentIdents(_)
PresentIdents(Node) ==
  CASE Node.kind = "Ident" -> <<Node.val>>
    [] Node.kind = "BinaryOp" -> PresentIdents(Node.left) \o PresentIdents(Node.right)
    [] Node.kind = "WithDecl" -> PresentIdents(Node.expr)
    [] OTHER -> <<>>
TreeVars == IF Tree.kind = "WithDecl" THEN Tree.vars ELSE <<>>

\* C14: the semantic check run on a partial tree returned by the parser
\* never visits the missing child, reports has-errors, and still visits
\* everything that is present: one "already declared" for each repeated
\* name and one "not declared" for each undeclared identifier of every
\* present subtree, in traversal order.
C14_PartialTreeChecked ==
  sema.ran /\ Partial(Tree) =>
    /\ ~sema.nullAccept
    /\ sema.HasError
    /\ sema.Scope = Range(TreeVars)
    /\ ErrTexts(TwiceErrs) = Repeats(TreeVars, 1)
    /\ ErrTexts(NotErrs) =
         SelectSeq(PresentIdents(Tree), LAMBDA n : n \notin Range(TreeVars))
    /\ sema.errs = TwiceErrs \o NotErrs

C14_Witness ==
  /\ sema.ran
  /\ Tree.kind = "WithDecl"
  /\ Tree.expr.kind = "BinaryOp"
  /\ Tree.expr.left = NULL
  /\ sema.HasError
  /\ TwiceErrs # <<>>
  /\ NotErrs = <<[msg |-> "not declared", text |-> LxC]>>

\* what an expression denotes over 32-bit signed operands: an integer;
\* "over" when a "+", "-" or "*" on two integers leaves the 32-bit range (or
\* has such a result for an operand); "undef" when a division has no defined
\* result.  A literal that does not convert stands for the next of lits.
RECURSIVE Denote(_, _, _)
Denote(Node, env, lits) ==
  CASE Node.kind = "Number" ->
         LET c == getAsInteger(Node.val) IN
         IF c.fail THEN [k |-> "int", v |-> Head(lits), lits |-> Tail(lits)]
         ELSE [k |-> "int", v |-> c.val, lits |-> lits]
    [] Node.kind = "Ident" -> [k |-> "int", v |-> env[Node.val], lits |-> lits]
    [] Node.kind = "BinaryOp" ->
         LET l == Denote(Node.left, env, lits)
             r == Denote(Node.right, env, l.lits)
             is(k) == [k |-> k, v |-> 0, lits |-> r.lits]
             int(v) == [k |-> "int", v |-> v, lits |-> r.lits]
         IN CASE l.k = "undef" \/ r.k = "undef" -> is("undef")
              [] Node.op = "Div" ->
                   IF r.k = "over" \/ r.v = 0 THEN is("undef")
                   ELSE IF l.k = "over" THEN is("over")
                   ELSE IF l.v = IntMin /\ r.v = -1 THEN is("undef")
                   ELSE int(TruncDiv(l.v, r.v))
              [] l.k = "over" \/ r.k = "over" -> is("over")
              [] Node.op = "Plus" ->
                   IF r.v > 0 /\ l.v > IntMax - r.v THEN is("over")
                   ELSE IF r.v < 0 /\ l.v < IntMin - r.v THEN is("over")
                   ELSE int(l.v + r.v)
              [] Node.op = "Minus" ->
                   IF r.v < 0 /\ l.v > IntMax + r.v THEN is("over")
                   ELSE IF r.v > 0 /\ l.v < IntMin + r.v THEN is("over")
                   ELSE int(l.v - r.v)
              [] Node.op = "Mul" ->
                   IF MulOverflows(l.v, r.v) THEN is("over") ELSE int(l.v * r.v)
Denoted == Denote(Body, run.inputs, gen.intvals)

\* one operation per BinaryOp, after those of its left and of its right child
RECURSIVE PostOrderOps(_)
PostOrderOps(Node) ==
  IF Node.kind # "BinaryOp" THEN <<>>
  ELSE PostOrderOps(Node.left) \o PostOrderOps(Node.right)
       \o <<CASE Node.op = "Plus" -> "add nsw" [] Node.op = "Minus" -> "sub nsw"
              [] Node.op = "Mul" -> "mul nsw" [] Node.op = "Div" -> "sdiv">>
EmittedOps ==
  LET a == SelectSeq(gen.instrs, LAMBDA ins : ins.op \in ArithOps)
  IN [i \in DOMAIN a |-> a[i].op]

\* C15 as stated: one operation per BinaryOp, left child first, then right;
\* a "+", "-" or "*" whose result leaves the signed 32-bit range makes the
\* generated program trap and print nothing; "/" truncates.
C15_OverflowTraps ==
  /\ gen.ran => EmittedOps = PostOrderOps(Body)
  /\ run.ran /\ Denoted.k = "int" => run.out = <<Denoted.v>>
  /\ run.ran /\ Denoted.k = "over" => run.trap /\ run.out = <<>>

\* C15, amended: one no-signed-wrap add, sub or mul, or one sdiv, per
\* BinaryOp, after its left and then its right child; a result within the
\* signed 32-bit range is computed exactly, "/" rounding toward zero; a
\* result of "+", "-" or "*" outside the range is not defined and the program
\* does not trap: it prints some value and returns 0.
C15_NoSignedWrap ==
  /\ gen.ran => EmittedOps = PostOrderOps(Body)
  /\ run.ran /\ Denoted.k = "int" =>
       run.out = <<Denoted.v>> /\ ~run.ub /\ ~run.trap /\ run.status = 0
  /\ run.ran /\ Denoted.k = "over" =>
       run.ub /\ ~run.trap /\ Len(run.out) = 1 /\ run.status = 0
  /\ run.ran /\ src = Ex_withAB /\ run.inputs[LxA] = -7 /\ run.inputs[LxB] = 2 =>
       run.out = <<-11>>

C15_Witness ==
  /\ run.ran
  /\ Body.kind = "BinaryOp"
  /\ Denoted.k = "over"
  /\ ~run.trap
  /\ run.out = <<-1>>
  /\ run.status = 0

\* C16: when parse() has returned with the failure flag clear the tree is
\* not null and complete (every BinaryOp has both children, a declaration
\* has a name and a body); so the semantic check and the generator, which run
\* only behind the driver's test of the flag, never meet a missing child.
C16_CleanTreeIsComplete ==
  /\ ParseReturned /\ ~HasError => Tree # NULL /\ Complete(Tree)
  /\ ParseReturned /\ (Tree = NULL \/ Partial(Tree)) => HasError
  /\ sema.ran => Complete(Tree) /\ ~sema.nullAccept
  /\ gen.ran => Complete(Tree) /\ ~gen.crash

C16_Witness ==
  /\ gen.ran
  /\ ~HasError
  /\ Tree.kind = "WithDecl"
  /\ Len(Tree.vars) = 2
  /\ Tree.expr.kind = "BinaryOp"
  /\ Tree.expr.left.kind = "BinaryOp"
  /\ Complete(Tree)

====
